---- MODULE Spec2Model ----
(***************************************************************************)
(* Model of the FTP control-connection server in src/src/main.rs.          *)
(*                                                                         *)
(* State: the Client objects (cwd, name, data_writer), the passive-mode    *)
(* listeners they bind, the accepted data sockets, and the responses each  *)
(* call of Client::handle_cmd writes to the control stream.                *)
(*                                                                         *)
(* Byte strings are sequences of byte values; a Rust String is the         *)
(* sequence of its UTF-8 bytes.  Option values are sequences of length at  *)
(* most one: None is <<>> and Some(x) is <<x>>.                            *)
(*                                                                         *)
(* Writes handle_cmd makes to the control stream are taken to succeed:    *)
(* the control connection of a session that handles a command is up.      *)
(*                                                                         *)
(* Spec and FairSpec are Client::handle_cmd and Command::new called on     *)
(* sessions; AcceptSpec is main's accept loop, with handle_client and      *)
(* read_all_message called on connections of their own (main calls         *)
(* neither, and nothing in the source calls handle_cmd).                   *)
(***************************************************************************)
EXTENDS Integers, Sequences, FiniteSets, TLC

\* ------------------------------------------------------------------ bounds
NumSessions == 2
MaxConns == 2
MaxBacklog == 1
MaxCalls == 3
MaxAccepts == 3

Sessions == 1..NumSessions

\* ------------------------------------------------------------- Option<T>
None == <<>>
Some(x) == <<x>>
is_some(o) == o # <<>>
unwrap(o) == o[1]

\* ------------------------------------------------------------ ResultCode
DataConnectionAlreadyOpen == 125
Ok == 200
ServiceReadyForNewUser == 220
ClosingDataConnection == 226
EnteringPassiveMode == 227
UserLoggedIn == 230
PATHNAMECreated == 257
ServiceNotAvailable == 421
ConnectionClosed == 426
UnknownCommand == 500
InvalidParameterOrArgument == 501
CommandNotImplemented == 502
FileNotFound == 550

\* ------------------------------------------------------- byte constants
SP == 32
SLASH == 47
QUOTE == 34
COMMA == 44
CR == 13
LF == 10

B_AUTH == <<65, 85, 84, 72>>
B_SYST == <<83, 89, 83, 84>>
B_USER == <<85, 83, 69, 82>>
B_LIST == <<76, 73, 83, 84>>
B_NOOP == <<78, 79, 79, 80>>
B_PWD == <<80, 87, 68>>
B_TYPE == <<84, 89, 80, 69>>
B_PASV == <<80, 65, 83, 86>>

\* ----------------------------------------------------------- UTF-8 check
\* str::from_utf8 / String::from_utf8 accept exactly the well-formed UTF-8
\* byte sequences and return the same bytes.
IsCont(b) == b >= 128 /\ b <= 191

RECURSIVE Utf8Valid(_)
Utf8Valid(bs) ==
    IF Len(bs) = 0 THEN TRUE
    ELSE LET b == bs[1]
             n == Len(bs)
         IN  IF b < 128 THEN Utf8Valid(SubSeq(bs, 2, n))
             ELSE IF b >= 194 /\ b <= 223
                  THEN /\ n >= 2
                       /\ IsCont(bs[2])
                       /\ Utf8Valid(SubSeq(bs, 3, n))
             ELSE IF b >= 224 /\ b <= 239
                  THEN /\ n >= 3
                       /\ IsCont(bs[2]) /\ IsCont(bs[3])
                       /\ (b = 224 => bs[2] >= 160)
                       /\ (b = 237 => bs[2] <= 159)
                       /\ Utf8Valid(SubSeq(bs, 4, n))
             ELSE IF b >= 240 /\ b <= 244
                  THEN /\ n >= 4
                       /\ IsCont(bs[2]) /\ IsCont(bs[3]) /\ IsCont(bs[4])
                       /\ (b = 240 => bs[2] >= 144)
                       /\ (b = 244 => bs[2] <= 143)
                       /\ Utf8Valid(SubSeq(bs, 5, n))
             ELSE FALSE

\* ----------------------------------------------------------- the parser
\* to_uppercase: every byte in 'a'..'z' is lowered by 32, others are kept.
to_uppercase(data) ==
    [i \in 1..Len(data) |->
        IF data[i] >= 97 /\ data[i] <= 122 THEN data[i] - 32 ELSE data[i]]

\* input.split(|&byte| byte == b' '): the slices between space bytes; an
\* empty input yields one empty slice, a trailing space an empty last slice.
RECURSIVE split(_)
split(bs) ==
    IF \E i \in 1..Len(bs) : bs[i] = SP
    THEN LET i == CHOOSE k \in 1..Len(bs) :
                     /\ bs[k] = SP
                     /\ \A j \in 1..(k - 1) : bs[j] # SP
         IN  <<SubSeq(bs, 1, i - 1)>> \o split(SubSeq(bs, i + 1, Len(bs)))
    ELSE <<bs>>

Cmd(tag, arg) == [tag |-> tag, arg |-> arg]

\* The fallback arm of the match: Unknown(str::from_utf8(s).unwrap_or("")).
unknown_arm_raw(s, raw) == Cmd("Unknown", IF Utf8Valid(raw) THEN raw ELSE <<>>)

unknown_arm(s, raw) == Cmd("Unknown", IF Utf8Valid(s) THEN s ELSE <<>>)

\* Command::new.  The result is [panic |-> TRUE] when an expect() fails and
\* [panic |-> FALSE, cmd |-> c] for Ok(c).
Command_new(input) ==
    LET iter == split(input)
        command == to_uppercase(iter[1])
        data == IF Len(iter) >= 2 THEN Some(iter[2]) ELSE None
    IN  IF command = B_AUTH THEN [panic |-> FALSE, cmd |-> Cmd("Auth", <<>>)]
        ELSE IF command = B_SYST THEN [panic |-> FALSE, cmd |-> Cmd("Syst", <<>>)]
        ELSE IF command = B_USER
             THEN IF is_some(data) /\ ~Utf8Valid(unwrap(data))
                  THEN [panic |-> TRUE, cmd |-> Cmd("User", <<>>)]
                  ELSE [panic |-> FALSE,
                        cmd |-> Cmd("User", IF is_some(data) THEN unwrap(data) ELSE <<>>)]
        ELSE [panic |-> FALSE, cmd |-> unknown_arm(command, iter[1])]

\* ------------------------------------------------------ response encoder
\* send_cmd appends one line "<code> <message>\r\n" to the control stream.
\* The message is kept as its format string and the formatted argument.
send_cmd(stream, code, fmt, arg) ==
    Append(stream, [code |-> code, fmt |-> fmt, arg |-> arg])

\* The decimal digits {} prints for an unsigned number.
RECURSIVE Dec(_)
Dec(n) == IF n < 10 THEN <<48 + n>> ELSE Dec(n \div 10) \o <<48 + (n % 10)>>

B_127_0_0_1 == <<49, 50, 55, 46, 48, 46, 48, 46, 49>>

\* The message bytes format! produces for the Pasv and the Pwd replies:
\* "127.0.0.1,{},{}" with the two port numbers, "\"/{}\" " with the path.
format_message(r) ==
    CASE r.fmt = "127.0.0.1,{},{}" ->
            B_127_0_0_1 \o <<COMMA>> \o Dec(r.arg[1]) \o <<COMMA>> \o Dec(r.arg[2])
      [] r.fmt = "\"/{}\" " -> <<QUOTE, SLASH>> \o r.arg \o <<QUOTE, SP>>

\* send_data has an empty body: nothing is written to the data stream.
send_data(stream, s) == stream

\* add_file_info computes local values only; `out` is left as it was.
add_file_info(path, out) == out


\* ------------------------------------------------------------ the Client
\* Client::new: cwd is "/", no name, no data connection.
Client_new == [cwd |-> <<SLASH>>, name |-> None, data_writer |-> None]

\* The port the Pasv arm binds.
PasvPort == 43210

\* What a call of handle_cmd (or one of its two halves around the blocking
\* accept) produces: the Client afterwards, the lines sent on the control
\* stream, the writes made on the data stream, and how the call ended:
\* "done" (returned), "listening" (blocked in accept) or "panic".
Result(c, resp, written, outcome) ==
    [c |-> c, resp |-> resp, written |-> written, outcome |-> outcome]

handle_auth(c) ==
    Result(c, send_cmd(<<>>, CommandNotImplemented, "Not Implemented", <<>>), <<>>, "done")

handle_noop(c) ==
    Result(c, send_cmd(<<>>, Ok, "Doing nothing...", <<>>), <<>>, "done")

handle_syst(c) ==
    Result(c, send_cmd(<<>>, Ok, "I won't tell", <<>>), <<>>, "done")

handle_type(c) ==
    Result(c, send_cmd(<<>>, Ok, "Transfer type changed successfully", <<>>), <<>>, "done")

handle_pwd(c) ==
    LET msg == IF Utf8Valid(c.cwd) THEN c.cwd ELSE <<>>
    IN  IF msg # <<>>
        THEN Result(c, send_cmd(<<>>, PATHNAMECreated, "\"/{}\" ", msg), <<>>, "done")
        ELSE Result(c, send_cmd(<<>>, FileNotFound, "no such file or directory", <<>>),
                    <<>>, "done")

handle_user_reset(c, username) ==
    IF username = <<>>
    THEN Result([c EXCEPT !.name = None],
                send_cmd(<<>>, InvalidParameterOrArgument, "invalid username", <<>>),
                <<>>, "done")
    ELSE Result([c EXCEPT !.name = Some(username)],
                send_cmd(<<>>, UserLoggedIn, "welcome {}!", username), <<>>, "done")

handle_user(c, username) ==
    IF username = <<>>
    THEN Result(c, send_cmd(<<>>, InvalidParameterOrArgument, "invalid username", <<>>),
                <<>>, "done")
    ELSE Result([c EXCEPT !.name = Some(username)],
                send_cmd(<<>>, UserLoggedIn, "welcome {}!", username), <<>>, "done")

handle_unknown(c, s) ==
    Result(c, send_cmd(<<>>, UnknownCommand, "command {} not Implemented", s),
           <<>>, "done")

\* ---- Command::Pasv
\* The 227 line: format!("127.0.0.1,{},{}", port >> 8, port & 0xFF).
pasv_reply(stream, port) ==
    send_cmd(stream, EnteringPassiveMode, "127.0.0.1,{},{}",
             <<port \div 256, port % 256>>)

pasv_is_open_never(c) == FALSE

\* if self.data_writer.is_some()
pasv_is_open(c) == is_some(c.data_writer)

\* Up to the blocking accept.  bind_ok is the result of TcpListener::bind,
\* which is unwrap()ped after the 227 line has been sent.
handle_pasv(c, bind_ok) ==
    IF pasv_is_open(c)
    THEN Result(c, send_cmd(<<>>, DataConnectionAlreadyOpen, "already listening....", <<>>),
                <<>>, "done")
    ELSE IF bind_ok
         THEN Result(c, pasv_reply(<<>>, PasvPort), <<>>, "listening")
         ELSE Result(c, pasv_reply(<<>>, PasvPort), <<>>, "panic")

\* listener.incoming().next() returned Some(Ok(client)).
pasv_accepted(c, conn) ==
    Result([c EXCEPT !.data_writer = Some(conn)], pasv_reply(<<>>, PasvPort), <<>>, "done")

\* listener.incoming().next() returned anything else.
pasv_accept_failed(c) ==
    Result(c,
           send_cmd(pasv_reply(<<>>, PasvPort), ServiceNotAvailable, "issue happend...", <<>>),
           <<>>, "done")

\* ---- Command::List
\* The loop over read_dir(tmp): the inner loop runs over `dir`, a name the
\* source binds nowhere; whatever it ranges over, its body is add_file_info,
\* which leaves `out` as it is.  send_data is called once per outer entry.
RECURSIVE list_loop(_, _, _)
list_loop(entries, out, dstream) ==
    IF entries = <<>> THEN dstream
    ELSE LET out1 == add_file_info(Head(entries).name, out)
         IN  list_loop(Tail(entries), out1, send_data(dstream, out1))

list_close_always(c) == TRUE

\* The trailing `if self.data_writer.is_some()`.
list_close(c) == is_some(c.data_writer)

\* rd is the result of read_dir("."): [ok, entries].
handle_list(c, rd) ==
    IF is_some(c.data_writer)
    THEN LET r1 == send_cmd(<<>>, DataConnectionAlreadyOpen,
                            "starting to list directory.....", <<>>)
         IN  IF ~rd.ok
             THEN Result(c, r1, <<>>, "panic")
             ELSE LET w == list_loop(rd.entries, <<>>, <<>>)
                  IN  IF list_close(c)
                      THEN Result([c EXCEPT !.data_writer = None],
                                  send_cmd(r1, ClosingDataConnection, "Transfer done", <<>>),
                                  w, "done")
                      ELSE Result(c, r1, w, "done")
    ELSE LET r1 == send_cmd(<<>>, ConnectionClosed, "No opened data connection", <<>>)
         IN  IF list_close(c)
             THEN Result([c EXCEPT !.data_writer = None],
                         send_cmd(r1, ClosingDataConnection, "Transfer done", <<>>),
                         <<>>, "done")
             ELSE Result(c, r1, <<>>, "done")

\* handle_cmd for the arms that neither block nor read the environment.
handle_cmd(c, cmd) ==
    CASE cmd.tag = "Auth" -> handle_auth(c)
      [] cmd.tag = "NoOp" -> handle_noop(c)
      [] cmd.tag = "Syst" -> handle_syst(c)
      [] cmd.tag = "Pwd" -> handle_pwd(c)
      [] cmd.tag = "Type" -> handle_type(c)
      [] cmd.tag = "User" -> handle_user(c, cmd.arg)
      [] cmd.tag = "Unknown" -> handle_unknown(c, cmd.arg)


\* ----------------------------------------------------------------- inputs
ToLower(bs) == [i \in 1..Len(bs) |-> IF bs[i] >= 65 /\ bs[i] <= 90 THEN bs[i] + 32 ELSE bs[i]]

B_QUIT == <<81, 85, 73, 84>>
B_Xyz == <<88, 121, 122>>
B_UsEr == <<85, 115, 69, 114>>
B_al == <<97, 108>>
B_a_b == <<97, 32, 98>>
B_eacute == <<195, 169>>
B_bad == <<255>>

\* The lines a client sends: a verb, and what follows it.
UserVerbs == {B_USER, ToLower(B_USER)}
UserTails == {<<>>, <<SP>>, <<SP>> \o B_al, <<SP>> \o B_a_b, <<SP>> \o B_bad}
OtherVerbs ==
    {B_AUTH, B_SYST, B_NOOP, ToLower(B_NOOP), B_LIST, B_PASV, B_PWD, B_TYPE,
     B_QUIT, ToLower(B_QUIT), B_Xyz, <<>>, B_eacute, B_bad}

Lines ==
    {v \o t : v \in UserVerbs, t \in UserTails}
        \cup OtherVerbs
        \cup {B_UsEr \o <<SP>> \o B_al, ToLower(B_AUTH) \o <<SP>> \o B_al,
              B_QUIT \o <<SP>> \o B_al}

\* The Command values handle_cmd is called with.
Commands ==
    {Cmd(t, <<>>) : t \in {"Auth", "List", "Syst", "NoOp", "Pwd", "Type", "Pasv"}}
        \cup {Cmd("User", n) : n \in {<<>>, B_al}}
        \cup {Cmd("Unknown", v) : v \in {B_QUIT}}

\* What read_dir(".") returns: an error, or the entries of the directory;
\* stat tells whether the entry's metadata can be read.
Entry(name, stat) == [name |-> name, stat |-> stat]
ReadDirs ==
    {[ok |-> FALSE, entries |-> <<>>],
     [ok |-> TRUE, entries |-> <<>>],
     [ok |-> TRUE, entries |-> <<Entry(B_al, TRUE)>>],
     [ok |-> TRUE, entries |-> <<Entry(B_al, TRUE), Entry(B_QUIT, FALSE)>>]}
NoDir == [ok |-> TRUE, entries |-> <<>>]

\* ------------------------------------------------------------------ state
VARIABLES
    client,     \* session -> Client (cwd, name, data_writer)
    pc,         \* session -> "idle" | "accept" | "panicked"
    lport,      \* session -> the port its passive listener is bound to, 0: none
    backlog,    \* session -> connections waiting on its listener
    nconn,      \* data connections made so far
    ncalls,     \* calls of handle_cmd and Command::new made so far
    socks,      \* open accepted data sockets, <<connection, owning session>>
    last,       \* the most recent call of handle_cmd that ended
    acceptor,   \* main's accept loop: "running" | "stopped"
    conns,      \* what became of each connection attempt, in order
    lastRead    \* the most recent call of read_all_message

vars == <<client, pc, lport, backlog, nconn, ncalls, socks, last,
          acceptor, conns, lastRead>>
sessionVars == <<client, pc, lport, backlog, nconn, ncalls, socks, last>>
acceptVars == <<acceptor, conns, lastRead>>

NoRead == [called |-> FALSE, input |-> <<>>, result |-> <<>>]

NoCall ==
    [sess |-> 0, src |-> "none", line |-> <<>>, cmd |-> Cmd("None", <<>>),
     parsed |-> FALSE, before |-> Client_new, after |-> Client_new,
     resp |-> <<>>, written |-> <<>>, outcome |-> "done", dir |-> NoDir,
     bind |-> "none", accept |-> "none"]

Init ==
    /\ client = [s \in Sessions |-> Client_new]
    /\ pc = [s \in Sessions |-> "idle"]
    /\ lport = [s \in Sessions |-> 0]
    /\ backlog = [s \in Sessions |-> <<>>]
    /\ nconn = 0
    /\ ncalls = 0
    /\ socks = {}
    /\ last = NoCall
    /\ acceptor = "running"
    /\ conns = <<>>
    /\ lastRead = NoRead

PortBound(p) == \E t \in Sessions : lport[t] = p

\* Dropping a Client or replacing its data_writer closes the old socket.
SocksOf(s, c) == IF is_some(c.data_writer) THEN {<<unwrap(c.data_writer), s>>} ELSE {}

\* The state after a call on session s ended, or blocked in accept, with r.
\* A panic unwinds the session: its Client is dropped with its sockets.
Finish(s, src, line, cmd, parsed, before, r, dir, bind, accept) ==
    /\ client' = [client EXCEPT ![s] =
                    IF r.outcome = "panic" THEN [r.c EXCEPT !.data_writer = None] ELSE r.c]
    /\ pc' = [pc EXCEPT ![s] = CASE r.outcome = "done" -> "idle"
                                 [] r.outcome = "listening" -> "accept"
                                 [] r.outcome = "panic" -> "panicked"]
    /\ socks' = (socks \ {k \in socks : k[2] = s})
                    \cup (IF r.outcome = "panic" THEN {} ELSE SocksOf(s, r.c))
    /\ last' = IF r.outcome = "listening" THEN last
               ELSE [sess |-> s, src |-> src, line |-> line, cmd |-> cmd,
                     parsed |-> parsed, before |-> before, after |-> client'[s],
                     resp |-> r.resp, written |-> r.written, outcome |-> r.outcome,
                     dir |-> dir, bind |-> bind, accept |-> accept]

\* One call of handle_cmd on session s, up to its return, its panic, or the
\* point where it blocks in accept.
Handle(s, src, line, cmd) ==
    CASE cmd.tag = "Pasv" ->
            \E env_ok \in BOOLEAN :
                LET tried == ~pasv_is_open(client[s])
                    bind_ok == env_ok /\ ~PortBound(PasvPort)
                    r == handle_pasv(client[s], bind_ok)
                IN  /\ (~tried => env_ok)
                    /\ Finish(s, src, line, cmd, TRUE, client[s], r, NoDir,
                              IF ~tried THEN "none" ELSE IF bind_ok THEN "ok" ELSE "fail",
                              "none")
                    /\ lport' = [lport EXCEPT ![s] =
                                    IF r.outcome = "listening" THEN PasvPort ELSE 0]
                    /\ UNCHANGED <<backlog, nconn>>
      [] cmd.tag = "List" ->
            \E rd \in ReadDirs :
                /\ (~is_some(client[s].data_writer) => rd = NoDir)
                /\ Finish(s, src, line, cmd, TRUE, client[s],
                          handle_list(client[s], rd), rd, "none", "none")
                /\ UNCHANGED <<lport, backlog, nconn>>
      [] OTHER ->
            /\ Finish(s, src, line, cmd, TRUE, client[s],
                      handle_cmd(client[s], cmd), NoDir, "none", "none")
            /\ UNCHANGED <<lport, backlog, nconn>>

\* handle_cmd is called with a Command value.
Dispatch(s) ==
    /\ pc[s] = "idle"
    /\ ncalls < MaxCalls
    /\ ncalls' = ncalls + 1
    /\ \E cmd \in Commands : Handle(s, "cmd", <<>>, cmd)
    /\ UNCHANGED acceptVars

\* Command::new on each line a client may send.
Parsed == [l \in Lines |-> Command_new(l)]

\* A line is parsed by Command::new and the Command handed to handle_cmd.
\* A failed expect() in the parser panics before handle_cmd is reached.
ReadLine(s) ==
    /\ pc[s] = "idle"
    /\ ncalls < MaxCalls
    /\ ncalls' = ncalls + 1
    /\ \E line \in Lines :
          LET p == Parsed[line]
          IN  IF p.panic
              THEN /\ Finish(s, "line", line, p.cmd, FALSE, client[s],
                             Result(client[s], <<>>, <<>>, "panic"), NoDir, "none", "none")
                   /\ UNCHANGED <<lport, backlog, nconn>>
              ELSE Handle(s, "line", line, p.cmd)
    /\ UNCHANGED acceptVars

\* A client connects to the advertised port while a listener is bound to it.
DataConnect(s) ==
    /\ lport[s] = PasvPort
    /\ nconn < MaxConns
    /\ Len(backlog[s]) < MaxBacklog
    /\ nconn' = nconn + 1
    /\ backlog' = [backlog EXCEPT ![s] = Append(@, nconn + 1)]
    /\ UNCHANGED <<client, pc, lport, ncalls, socks, last>>
    /\ UNCHANGED acceptVars

\* The blocked accept returns a connection; the listener is dropped at the
\* end of the arm.
PasvAccept(s) ==
    /\ pc[s] = "accept"
    /\ backlog[s] # <<>>
    /\ Finish(s, "accept", <<>>, Cmd("Pasv", <<>>), TRUE, client[s],
              pasv_accepted(client[s], Head(backlog[s])), NoDir, "ok", "ok")
    /\ lport' = [lport EXCEPT ![s] = 0]
    /\ backlog' = [backlog EXCEPT ![s] = <<>>]
    /\ UNCHANGED <<nconn, ncalls>>
    /\ UNCHANGED acceptVars

\* The blocked accept returns an error.
PasvAcceptFail(s) ==
    /\ pc[s] = "accept"
    /\ Finish(s, "accept", <<>>, Cmd("Pasv", <<>>), TRUE, client[s],
              pasv_accept_failed(client[s]), NoDir, "ok", "fail")
    /\ lport' = [lport EXCEPT ![s] = 0]
    /\ backlog' = [backlog EXCEPT ![s] = <<>>]
    /\ UNCHANGED <<nconn, ncalls>>
    /\ UNCHANGED acceptVars

\* ------------------------------------------- the acceptor and the reader
B_hello == <<104, 101, 108, 108, 111>>

\* A control connection once the code that took it has returned: whether it
\* was accepted, which function took it, what was written to it, what the
\* calls of read_all_message made on it returned, and whether the peer has
\* closed it.  The stream is dropped when the function returns.
Conn(accepted, by, out) ==
    [accepted |-> accepted, by |-> by, out |-> out, reads |-> <<>>,
     handler |-> "returned", peer |-> "open"]

\* handle_client: the 220 greeting, and nothing after it.
handle_client(stream) ==
    send_cmd(stream, ServiceReadyForNewUser, "Welcome to this Rust FTP", <<>>)

main_arm_fatal(res, wr) ==
    IF res = "ok"
    THEN [conn |-> Conn(TRUE, "main", IF wr = "ok" THEN <<[raw |-> B_hello]>> ELSE <<>>),
          acceptor |-> "running"]
    ELSE [conn |-> Conn(FALSE, "main", <<>>), acceptor |-> "stopped"]

\* One turn of main's loop over listner.incoming(): res is what accept gave,
\* wr what stream.write(b"hello") gave.  Both failures are only printed.
main_arm(res, wr) ==
    IF res = "ok"
    THEN [conn |-> Conn(TRUE, "main", IF wr = "ok" THEN <<[raw |-> B_hello]>> ELSE <<>>),
          acceptor |-> "running"]
    ELSE [conn |-> Conn(FALSE, "main", <<>>), acceptor |-> "running"]

\* read_all_message on a stream that delivers the bytes of input and then
\* reports end of stream or an error.
RECURSIVE read_all_message(_, _)
read_all_message(input, out) ==
    IF input = <<>> THEN <<>>
    ELSE IF out = <<>> /\ Head(input) = SP THEN read_all_message(Tail(input), out)
    ELSE LET out1 == Append(out, Head(input))
             len == Len(out1)
         IN  IF len > 1 /\ out1[len - 1] = CR /\ out1[len] = LF
             THEN SubSeq(out1, 1, len - 2)
             ELSE read_all_message(Tail(input), out1)

\* What a peer sends before it closes the control connection.
Streams ==
    {<<>>, <<CR, LF>>, <<78, 79>>, B_NOOP \o <<CR, LF>>, <<SP, SP>> \o B_NOOP \o <<CR, LF>>,
     <<SP>>, B_USER \o <<SP>> \o B_al \o <<CR, LF>> \o B_AUTH \o <<CR, LF>>,
     B_AUTH \o <<CR>>, <<LF>> \o B_AUTH \o <<CR, LF>>}

\* main accepts, or fails to accept, the next control connection.
main ==
    /\ acceptor = "running"
    /\ Len(conns) < MaxAccepts
    /\ \E res \in {"ok", "err"}, wr \in {"ok", "err"} :
          /\ (res = "err" => wr = "ok")
          /\ LET m == main_arm(res, wr)
             IN  /\ conns' = Append(conns, m.conn)
                 /\ acceptor' = m.acceptor
    /\ UNCHANGED lastRead
    /\ UNCHANGED sessionVars

\* handle_client is called on a connected stream.
HandleClient ==
    /\ Len(conns) < MaxAccepts
    /\ conns' = Append(conns, Conn(TRUE, "handle_client", handle_client(<<>>)))
    /\ UNCHANGED <<acceptor, lastRead>>
    /\ UNCHANGED sessionVars

\* The peer closes a control connection.
PeerClose ==
    /\ \E i \in 1..Len(conns) :
          /\ conns[i].accepted
          /\ conns[i].peer = "open"
          /\ conns' = [conns EXCEPT ![i].peer = "closed"]
    /\ UNCHANGED <<acceptor, lastRead>>
    /\ UNCHANGED sessionVars

\* read_all_message is called on a stream.
ReadAllMessage ==
    /\ \E input \in Streams :
          lastRead' = [called |-> TRUE, input |-> input,
                       result |-> read_all_message(input, <<>>)]
    /\ UNCHANGED <<acceptor, conns>>
    /\ UNCHANGED sessionVars

AcceptNext ==
    \/ main
    \/ HandleClient
    \/ PeerClose
    \/ ReadAllMessage

\* The program as main runs it, with handle_client and read_all_message
\* called on connections of their own.
AcceptSpec == Init /\ [][AcceptNext]_vars

Next ==
    \/ \E s \in Sessions : Dispatch(s)
    \/ \E s \in Sessions : ReadLine(s)
    \/ \E s \in Sessions : DataConnect(s)
    \/ \E s \in Sessions : PasvAccept(s)
    \/ \E s \in Sessions : PasvAcceptFail(s)

Spec == Init /\ [][Next]_vars

\* The accept returns once a connection is waiting; there is no other step
\* the server is bound to take.
FairSpec == Spec /\ \A s \in Sessions : WF_vars(PasvAccept(s))


\* ====================================================== the claims, C1..C10
Codes(resp) == [i \in 1..Len(resp) |-> resp[i].code]

\* The part of a line before its first space, and what follows that space.
FirstSpace(line) ==
    IF \E i \in 1..Len(line) : line[i] = SP
    THEN CHOOSE i \in 1..Len(line) : line[i] = SP /\ \A j \in 1..(i - 1) : line[j] # SP
    ELSE Len(line) + 1
VerbOf(line) == SubSeq(line, 1, FirstSpace(line) - 1)
RestOf(line) == SubSeq(line, FirstSpace(line) + 1, Len(line))

Vocabulary == {B_AUTH, B_LIST, B_SYST, B_NOOP, B_PWD, B_TYPE, B_PASV, B_USER}
InVocabulary(verb) == \E v \in Vocabulary : ToLower(v) = ToLower(verb)
UpperAscii(bs) ==
    [i \in 1..Len(bs) |-> IF bs[i] \in 97..122 THEN bs[i] - 32 ELSE bs[i]]

SocksOwnedBy(s) == {k \in socks : k[2] = s}
PasvCall == last.sess # 0 /\ last.parsed /\ last.cmd.tag = "Pasv"
ListCall == last.sess # 0 /\ last.parsed /\ last.cmd.tag = "List"
LineCall == last.sess # 0 /\ last.src = "line"

\* ---- C1
\* C1: every session holds at most one open data socket, and it is the one
\* its data_writer names; a listener is bound only while the session has no
\* data channel; a Pasv handled while the session holds a data channel is
\* answered with the single line 125, attempts no bind, and leaves the same
\* connection as the session's data channel.
C1_PasvWhileOpenRejected ==
    /\ \A s \in Sessions :
          /\ Cardinality(SocksOwnedBy(s)) <= 1
          /\ SocksOwnedBy(s) = SocksOf(s, client[s])
          /\ (is_some(client[s].data_writer) => lport[s] = 0)
    /\ (PasvCall /\ is_some(last.before.data_writer)) =>
          /\ Codes(last.resp) = <<DataConnectionAlreadyOpen>>
          /\ last.bind = "none"
          /\ last.outcome = "done"
          /\ last.after = last.before
          /\ <<unwrap(last.before.data_writer), last.sess>> \in socks

C1_Witness ==
    /\ PasvCall
    /\ is_some(last.before.data_writer)
    /\ last.src = "cmd"
    /\ is_some(client[last.sess].data_writer)

\* ---- C2
\* C2: a List handled while the session has no data channel is answered with
\* the single line 426, leaves the session without a data channel and
\* otherwise unchanged, and the call returns, so the session goes on to its
\* next command.
C2_ListWithoutChannel ==
    (ListCall /\ ~is_some(last.before.data_writer)) =>
        /\ Codes(last.resp) = <<ConnectionClosed>>
        /\ last.after = last.before
        /\ last.written = <<>>
        /\ last.outcome = "done"
        /\ pc[last.sess] # "panicked"
        /\ SocksOwnedBy(last.sess) = {}

C2_Witness ==
    /\ ListCall
    /\ ~is_some(last.before.data_writer)
    /\ Codes(last.resp) = <<ConnectionClosed>>
    /\ pc[last.sess] = "idle"

\* ---- C3
\* The listing a directory calls for: one line per entry whose metadata can
\* be read, in the directory's order.
RECURSIVE Listing(_)
Listing(entries) ==
    IF entries = <<>> THEN <<>>
    ELSE (IF Head(entries).stat THEN <<Head(entries).name>> ELSE <<>>)
            \o Listing(Tail(entries))

RECURSIVE Flatten(_)
Flatten(writes) ==
    IF writes = <<>> THEN <<>> ELSE Head(writes) \o Flatten(Tail(writes))

\* C3: a List handled with an open data channel ends with the data channel
\* closed and exactly one 226 on the control stream, sent as the last line
\* and after the whole listing has been written to the data channel.
C3_ListClosesAfterPayload ==
    (ListCall /\ is_some(last.before.data_writer)) =>
        /\ last.outcome = "done"
        /\ ~is_some(last.after.data_writer)
        /\ Cardinality({i \in 1..Len(last.resp) :
                            last.resp[i].code = ClosingDataConnection}) = 1
        /\ last.resp[Len(last.resp)].code = ClosingDataConnection
        /\ Flatten(last.written) = Listing(last.dir.entries)

\* ---- C4
IsUserLine(line) == ToLower(VerbOf(line)) = ToLower(B_USER)

\* C4: a line USER <name> with a non-empty name sets the identity to <name>
\* and is answered 230; with an empty name the identity is kept and the
\* answer is 501.
C4_UserSetsIdentity ==
    (LineCall /\ IsUserLine(last.line)) =>
        IF RestOf(last.line) # <<>>
        THEN /\ last.outcome = "done"
             /\ last.after.name = Some(RestOf(last.line))
             /\ Codes(last.resp) = <<UserLoggedIn>>
        ELSE /\ last.outcome = "done"
             /\ last.after.name = last.before.name
             /\ Codes(last.resp) = <<InvalidParameterOrArgument>>

\* ---- C5
UnknownVerbLine == LineCall /\ ~InVocabulary(VerbOf(last.line))

\* C5 as stated: a line whose verb is not in the vocabulary is answered 500
\* with the verb as the client sent it, and the session is unchanged.
C5_EchoesVerbAsSent ==
    UnknownVerbLine =>
        /\ Codes(last.resp) = <<UnknownCommand>>
        /\ last.resp[1].arg = VerbOf(last.line)
        /\ last.after = last.before

\* C5 amended: a line whose verb is not in the vocabulary is answered with
\* the single line 500 whose message carries the verb with its ASCII letters
\* upper-cased when the verb is valid UTF-8 and an empty verb otherwise, and
\* the session is unchanged.
C5_EchoesUppercasedVerb ==
    UnknownVerbLine =>
        /\ Codes(last.resp) = <<UnknownCommand>>
        /\ last.resp[1].fmt = "command {} not Implemented"
        /\ last.resp[1].arg =
              (IF Utf8Valid(VerbOf(last.line)) THEN UpperAscii(VerbOf(last.line)) ELSE <<>>)
        /\ last.after = last.before
        /\ last.outcome = "done"

C5_Witness ==
    /\ UnknownVerbLine
    /\ VerbOf(last.line) = ToLower(B_QUIT)
    /\ last.resp[1].arg = B_QUIT

\* ---- C6
\* C6: the line NOOP is answered 200 and leaves the session as it was.
C6_NoopLineOk ==
    (LineCall /\ last.line = B_NOOP) =>
        /\ Codes(last.resp) = <<Ok>>
        /\ last.after = last.before

\* ---- C7
\* C7: a Pasv never fails to bind because another live session's listener
\* holds the port it asks for.
C7_NoPortCollision ==
    \A s, t \in Sessions :
        ~ /\ s # t
          /\ PasvCall /\ last.sess = s /\ last.bind = "fail"
          /\ lport[t] = PasvPort

\* ---- C8
\* C8: a session blocked in the passive accept always gets back to reading
\* its next command.
C8_AcceptAbandoned ==
    \A s \in Sessions : (pc[s] = "accept") ~> (pc[s] = "idle")

\* ---- C9
HandledError ==
    /\ last.sess # 0
    /\ \/ last.parsed /\ last.cmd.tag \in {"Auth", "Unknown"}
       \/ last.parsed /\ last.cmd.tag = "User" /\ last.cmd.arg = <<>>
       \/ ListCall /\ ~is_some(last.before.data_writer)
       \/ PasvCall /\ is_some(last.before.data_writer)
       \/ PasvCall /\ (last.bind = "fail" \/ last.accept = "fail")

\* C9: a command that ends in a handled error puts exactly one line on the
\* control stream, and that line carries a negative code.
C9_OneNegativeResponse ==
    HandledError => (Len(last.resp) = 1 /\ last.resp[1].code >= 400)

\* ---- C10
\* C10: a Pasv whose bind or accept fails returns without ending the
\* session, has sent 421, and leaves the session without a data channel.
C10_PasvFailureSurvives ==
    (PasvCall /\ (last.bind = "fail" \/ last.accept = "fail")) =>
        /\ last.outcome = "done"
        /\ pc[last.sess] # "panicked"
        /\ \E i \in 1..Len(last.resp) : last.resp[i].code = ServiceNotAvailable
        /\ ~is_some(last.after.data_writer)


\* ===================================================== the claims, C11..C20
\* ---- C11
\* C11: a List handled with an open data channel in a directory read_dir
\* cannot iterate puts 550 on the control stream, writes nothing to the data
\* channel, and returns without ending the session.
C11_ReadDirFailureSurfaced ==
    (ListCall /\ is_some(last.before.data_writer) /\ ~last.dir.ok) =>
        /\ last.outcome = "done"
        /\ pc[last.sess] # "panicked"
        /\ \E i \in 1..Len(last.resp) : last.resp[i].code = FileNotFound
        /\ last.written = <<>>

\* ---- C15
\* C15: Command::new yields a Command for every line and never aborts; the
\* empty line yields Unknown("").
C15_ParserTotal ==
    LineCall =>
        /\ last.parsed
        /\ last.outcome # "panic"
        /\ (last.line = <<>> => last.cmd = Cmd("Unknown", <<>>))

\* ---- C16
VariantOf(verb) ==
    CASE ToLower(verb) = ToLower(B_AUTH) -> "Auth"
      [] ToLower(verb) = ToLower(B_LIST) -> "List"
      [] ToLower(verb) = ToLower(B_SYST) -> "Syst"
      [] ToLower(verb) = ToLower(B_NOOP) -> "NoOp"
      [] ToLower(verb) = ToLower(B_PWD) -> "Pwd"
      [] ToLower(verb) = ToLower(B_TYPE) -> "Type"
      [] ToLower(verb) = ToLower(B_PASV) -> "Pasv"
      [] ToLower(verb) = ToLower(B_USER) -> "User"

\* C16: a line whose verb is a vocabulary verb, in any letter case, parses
\* to the variant of that verb.
C16_VocabularyParsed ==
    (LineCall /\ last.parsed /\ InVocabulary(VerbOf(last.line))) =>
        last.cmd.tag = VariantOf(VerbOf(last.line))

\* ---- C17
\* The pieces of a byte string between occurrences of sep.
RECURSIVE Fields(_, _)
Fields(bs, sep) ==
    IF \E i \in 1..Len(bs) : bs[i] = sep
    THEN LET i == CHOOSE k \in 1..Len(bs) :
                     bs[k] = sep /\ \A j \in 1..(k - 1) : bs[j] # sep
         IN  <<SubSeq(bs, 1, i - 1)>> \o Fields(SubSeq(bs, i + 1, Len(bs)), sep)
    ELSE <<bs>>

IsDecimal(bs) == bs # <<>> /\ \A i \in 1..Len(bs) : bs[i] \in 48..57

\* C17: the message of a 227 reply is six comma-separated decimal fields,
\* the octets 127, 0, 0, 1 and then port >> 8 and port & 0xFF of the port
\* the listener is bound to.
C17_PasvPayloadSixFields ==
    (PasvCall /\ last.resp # <<>> /\ last.resp[1].code = EnteringPassiveMode) =>
        LET f == Fields(format_message(last.resp[1]), COMMA)
        IN  /\ Len(f) = 6
            /\ \A i \in 1..Len(f) : IsDecimal(f[i])
            /\ SubSeq(f, 1, 4) = <<Dec(127), Dec(0), Dec(0), Dec(1)>>
            /\ f[Len(f) - 1] = Dec(PasvPort \div 256)
            /\ f[Len(f)] = Dec(PasvPort % 256)
            /\ PasvPort \div 256 \in 0..255
            /\ last.bind = "ok"

\* ---- C18
PwdCall == last.sess # 0 /\ last.parsed /\ last.cmd.tag = "Pwd"

\* C18: Pwd leaves the session as it was and answers 257 with the working
\* directory between double quotes, 550 only when the path is empty.
C18_PwdQuotesCwd ==
    PwdCall =>
        /\ last.after = last.before
        /\ Len(last.resp) = 1
        /\ IF last.before.cwd # <<>>
           THEN /\ last.resp[1].code = PATHNAMECreated
                /\ LET m == format_message(last.resp[1])
                       q == <<QUOTE>> \o last.before.cwd \o <<QUOTE>>
                   IN  Len(m) >= Len(q) /\ SubSeq(m, 1, Len(q)) = q
           ELSE last.resp[1].code = FileNotFound

\* ---- C19
\* C19: a List handled with an open data channel in a readable directory
\* writes, in at most one write, exactly one line per entry whose metadata
\* can be read, and ends with 226.
C19_ListingOncePerEntry ==
    (ListCall /\ is_some(last.before.data_writer) /\ last.dir.ok) =>
        /\ Len(last.written) <= 1
        /\ Flatten(last.written) = Listing(last.dir.entries)
        /\ last.resp[Len(last.resp)].code = ClosingDataConnection

\* ---- C20
HandledCall == last.sess # 0 /\ last.parsed

\* C20: a call of handle_cmd changes the data channel only in a Pasv that
\* accepts a connection (absent to open) and in a List with an open channel
\* (open to absent); it changes the identity only in a User with a non-empty
\* name, to that name, and never back to absent; it never changes the
\* working directory, which stays "/"; Auth, NoOp, Syst, Pwd, Type and
\* Unknown change nothing.
C20_DispatchFrame ==
    /\ \A s \in Sessions : client[s].cwd = <<SLASH>>
    /\ HandledCall =>
          /\ last.after.cwd = last.before.cwd
          /\ (last.after.data_writer # last.before.data_writer =>
                \/ /\ last.cmd.tag = "Pasv"
                   /\ last.accept = "ok"
                   /\ ~is_some(last.before.data_writer)
                   /\ is_some(last.after.data_writer)
                \/ /\ last.cmd.tag = "List"
                   /\ is_some(last.before.data_writer)
                   /\ ~is_some(last.after.data_writer))
          /\ (last.after.name # last.before.name =>
                /\ last.cmd.tag = "User"
                /\ last.cmd.arg # <<>>
                /\ last.after.name = Some(last.cmd.arg))
          /\ (is_some(last.before.name) => is_some(last.after.name))
          /\ (last.cmd.tag \in {"Auth", "NoOp", "Syst", "Pwd", "Type", "Unknown"} =>
                last.after = last.before)

C20_Witness ==
    /\ HandledCall
    /\ last.cmd.tag = "User"
    /\ last.cmd.arg = <<>>
    /\ is_some(last.before.name)
    /\ is_some(client[last.sess].data_writer)


\* ---- C12
IsLine(w) == "code" \in DOMAIN w

\* C12: what the server writes first on an accepted control connection is
\* the 220 greeting line.
C12_GreetingFirst ==
    \A i \in 1..Len(conns) :
        (conns[i].accepted /\ conns[i].out # <<>>) =>
            /\ IsLine(conns[i].out[1])
            /\ conns[i].out[1].code = ServiceReadyForNewUser

\* ---- C13
HasCRLF(bs) == \E i \in 1..(Len(bs) - 1) : bs[i] = CR /\ bs[i + 1] = LF

\* C13: read_all_message returns the empty vector when the stream ends
\* before a line is complete, and the session of a control connection the
\* peer has closed has seen that sentinel as the result of its last read.
C13_CloseObserved ==
    /\ (lastRead.called /\ ~HasCRLF(lastRead.input)) => lastRead.result = <<>>
    /\ \A i \in 1..Len(conns) :
          (conns[i].accepted /\ conns[i].peer = "closed") =>
              /\ conns[i].reads # <<>>
              /\ conns[i].reads[Len(conns[i].reads)] = <<>>

\* ---- C14
\* C14: the accept loop is running after every failed accept and after
\* every failed write to a connection, and what it did with the earlier
\* connections stands.
C14_AcceptorSurvives ==
    /\ acceptor = "running"
    /\ \A i \in 1..Len(conns) :
          /\ conns[i].by = "main" /\ conns[i].accepted =>
                conns[i].out \in {<<>>, <<[raw |-> B_hello]>>}
          /\ ~conns[i].accepted => conns[i].out = <<>>

C14_Witness ==
    /\ acceptor = "running"
    /\ \E i, j, k \in 1..Len(conns) :
          /\ i < j /\ j < k
          /\ ~conns[i].accepted
          /\ conns[j].by = "main" /\ conns[j].accepted /\ conns[j].out = <<>>
          /\ conns[k].by = "main" /\ conns[k].accepted /\ conns[k].out # <<>>

====
